---- MODULE Spec2Model ----
(***************************************************************************)
(* A model of meraki_bot_1.py: the AWS Lambda entry point lambda_handler,  *)
(* its command dispatch, and the command handlers that call the Meraki     *)
(* dashboard API, the Tropo API and the Spark messages API.                *)
(*                                                                         *)
(* One behaviour is one invocation of lambda_handler.  Every remote call   *)
(* is appended to `calls`; what the remote side answers is chosen when the *)
(* call is made.  Python strings are TLA+ strings, handled character by    *)
(* character with Len, SubSeq and \o.                                      *)
(***************************************************************************)
EXTENDS Integers, Sequences, FiniteSets, TLC

----------------------------------------------------------------------------
(* Bounds of the model *)

MaxDevices == 2      \* longest device list the dashboard returns
MaxClients == 1      \* longest client list the dashboard returns for a device
MaxNets == 3         \* longest network list
MaxAPs == 2          \* most access points in the handler studies

----------------------------------------------------------------------------
(* Python string primitives *)

Min(a, b) == IF a < b THEN a ELSE b

CharAt(s, i) == SubSeq(s, i, i)

\* the characters the model's strings use, in code point order
Alphabet == " '(),-.0123456789?ABCDEFGHIJKLMNOPQRSTUVWXYZ[]_abcdefghijklmnopqrstuvwxyz"
Uppers == "ABCDEFGHIJKLMNOPQRSTUVWXYZ"
Lowers == "abcdefghijklmnopqrstuvwxyz"

IndexIn(c, str) == IF \E i \in 1..Len(str) : CharAt(str, i) = c
                   THEN CHOOSE i \in 1..Len(str) : CharAt(str, i) = c
                   ELSE 0

AlphabetChars == {CharAt(Alphabet, i) : i \in 1..Len(Alphabet)}

\* rank of a character in code point order
OrdOf == [c \in AlphabetChars |-> IndexIn(c, Alphabet)]

Ord(c) == OrdOf[c]

\* str < str, as Python compares strings: by code point, shorter prefix first
StrLess(a, b) ==
    \E k \in 1..(Min(Len(a), Len(b)) + 1) :
        /\ \A j \in 1..(k - 1) : CharAt(a, j) = CharAt(b, j)
        /\ \/ k = Len(a) + 1 /\ k <= Len(b)
           \/ k <= Len(a) /\ k <= Len(b) /\ Ord(CharAt(a, k)) < Ord(CharAt(b, k))

\* s.startswith(p)
StartsWith(s, p) == Len(s) >= Len(p) /\ SubSeq(s, 1, Len(p)) = p

\* s.find(sep) + 1, or 0 when sep does not occur
Find(s, sep) ==
    LET hits == {i \in 1..(Len(s) - Len(sep) + 1) : SubSeq(s, i, i + Len(sep) - 1) = sep}
    IN IF hits = {} THEN 0 ELSE CHOOSE i \in hits : \A j \in hits : i <= j

\* s.split(sep, 1)
Split1(s, sep) ==
    LET i == Find(s, sep)
    IN IF i = 0 THEN <<s>>
       ELSE <<SubSeq(s, 1, i - 1), SubSeq(s, i + Len(sep), Len(s))>>

\* s[:n]
Prefix(s, n) == SubSeq(s, 1, Min(n, Len(s)))

\* re.compile(pat).search(s) is not None, for a pattern of literals and '.'
RegexSearch(pat, s) ==
    \E i \in 1..(Len(s) - Len(pat) + 1) :
        \A j \in 1..Len(pat) :
            \/ CharAt(pat, j) = "."
            \/ CharAt(pat, j) = CharAt(s, i + j - 1)

\* c.lower() for one character
LowerOf ==
    [c \in AlphabetChars |->
        IF IndexIn(c, Uppers) = 0 THEN c ELSE CharAt(Lowers, IndexIn(c, Uppers))]

LowerChar(c) == LowerOf[c]

\* s.lower()
RECURSIVE LowerFrom(_, _)
LowerFrom(s, i) == IF i > Len(s) THEN "" ELSE LowerChar(CharAt(s, i)) \o LowerFrom(s, i + 1)

Lower(s) == LowerFrom(s, 1)

\* s.replace(old, new) for a one-character old
RECURSIVE ReplaceFrom(_, _, _, _)
ReplaceFrom(s, i, old, new) ==
    IF i > Len(s) THEN ""
    ELSE (IF CharAt(s, i) = old THEN new ELSE CharAt(s, i)) \o ReplaceFrom(s, i + 1, old, new)

Replace(s, old, new) == ReplaceFrom(s, 1, old, new)

\* str(list of str): the repr of the list
RECURSIVE JoinRepr(_, _)
JoinRepr(l, i) ==
    IF i > Len(l) THEN ""
    ELSE (IF i > 1 THEN ", " ELSE "") \o "'" \o l[i] \o "'" \o JoinRepr(l, i + 1)

PyStr(l) == "[" \o JoinRepr(l, 1) \o "]"

\* all sequences over S of length at most n
SeqsUpTo(S, n) == UNION {[1..k -> S] : k \in 0..n}

----------------------------------------------------------------------------
(* Configuration read from meraki_info, and the values the remote sides send *)

my_org_id == "org1"
my_net_id == "net1"

MsgIds == {"msg1"}
RoomIds == {"roomA", "roomB"}

\* the webhook event: a full event, and the shapes that lack a field
Events ==
    {[data |-> [id |-> m, roomId |-> r]] : m \in MsgIds, r \in RoomIds}
        \cup {[data |-> [id |-> m]] : m \in MsgIds}
        \cup {[data |-> [roomId |-> r]] : r \in RoomIds}
        \cup {[data |-> [other |-> "x"]], [other |-> "x"]}

\* the message texts a room member can type
Texts ==
    {"Meraki get ?", "Meraki get inventory", "Meraki get networks", "Meraki get ssids",
     "Meraki get mr clients", "Meraki get guest clients", "Meraki get top talkers",
     "Meraki rick roll 5551234567", "Meraki rick roll ", "Meraki rick roll",
     "meraki get ?", "Meraki get ? ", " Meraki get inventory", "Meraki  get networks",
     "MERAKI GET SSIDS", "Meraki get", "hello", ""}

\* the decoded body of the message GET: a message, or an error body without 'text'
MessageBodies == {[text |-> x] : x \in Texts} \cup {[message |-> "Not Found"]}

\* what a merakiapi call returns: a list of dicts (rows), a dict keyed 'errors'
\* (keys), or None
ListResult(rows) == [kind |-> "list", rows |-> rows, keys |-> <<>>]
ErrorsResult == [kind |-> "dict", rows |-> <<>>, keys |-> <<"errors">>]
NoneResult == [kind |-> "None", rows |-> <<>>, keys |-> <<>>]
Unset == [kind |-> "unset", rows |-> <<>>, keys |-> <<>>]
\* what `for row in result` iterates over: the items of a list, the keys of a dict
Iterated(result) == IF result.kind = "dict" THEN result.keys ELSE result.rows
FailedResults == {ErrorsResult, NoneResult}

Device(model, serial, mac, tags) ==
    [model |-> model, serial |-> serial, mac |-> mac, tags |-> tags]

Devices ==
    {Device("MR33", "Q2-AP1", "00:18:0a:00:00:01", <<"guest_wireless">>),
     Device("MR42", "Q2-AP2", "00:18:0a:00:00:02", <<>>),
     Device("MX64", "Q2-MX1", "00:18:0a:00:00:03", <<"guest_wireless">>)}

Client(description, ip, mac, sent, recv) ==
    [description |-> description, ip |-> ip, mac |-> mac,
     usage |-> [sent |-> sent, recv |-> recv]]

Clients == {Client("Bob PC", "10.4.17.5", "aa:00:00:00:00:01", 3, 4)}

Network(id, name, tags) == [id |-> id, name |-> name, tags |-> tags]

Networks ==
    {Network("N_1", "branch", " retail "),
     Network("N_2", "Zurich", ""),
     Network("N_3", "alpha", " lab "),
     Network("N_4", "alpha", "")}

Ssid(number, name, enabled) == [number |-> number, name |-> name, enabled |-> enabled]

Ssids == {Ssid(0, "corp", TRUE), Ssid(1, "guest", FALSE)}

\* the status codes the Tropo API answers with
TropoStatuses == {200, 201, 202, 204, 400, 404, 500}

DeviceResults == {ListResult(l) : l \in SeqsUpTo(Devices, MaxDevices)} \cup FailedResults
ClientResults == {ListResult(l) : l \in SeqsUpTo(Clients, MaxClients)} \cup FailedResults
NetworkResults == {ListResult(l) : l \in SeqsUpTo(Networks, MaxNets)} \cup FailedResults
SsidResults == {ListResult(l) : l \in SeqsUpTo(Ssids, MaxDevices)} \cup FailedResults

----------------------------------------------------------------------------
(* The remote calls and the texts posted *)

Text(msg) == [kind |-> "text", msg |-> msg, header |-> <<>>, rows |-> <<>>]
\* str(table): the header and the rows in the order they are printed
Table(header, rows) == [kind |-> "table", msg |-> "", header |-> header, rows |-> rows]
NoBody == [kind |-> "none", msg |-> "", header |-> <<>>, rows |-> <<>>]

SparkGet(id) == [api |-> "spark", method |-> "GET", target |-> id, status |-> 0, body |-> NoBody]
SparkPost(room, body) ==
    [api |-> "spark", method |-> "POST", target |-> room, status |-> 0, body |-> body]
MerakiCall(op, target) ==
    [api |-> "meraki", method |-> op, target |-> target, status |-> 0, body |-> NoBody]
TropoPost(number, status) ==
    [api |-> "tropo", method |-> "POST", target |-> number, status |-> status, body |-> NoBody]

----------------------------------------------------------------------------
(* Python values a function returns: a list, a str (iterated by character), *)
(* or an exception raised instead                                           *)

PyList(items) == [kind |-> "list", items |-> items, s |-> ""]
PyString(str) == [kind |-> "str", items |-> [i \in 1..Len(str) |-> CharAt(str, i)], s |-> str]
Raised(e) == [kind |-> "raise", items |-> <<>>, s |-> e]

----------------------------------------------------------------------------
(* Filters and aggregators *)

\* model[:2] == 'MR'
IsAP(model) == Prefix(model, 2) = "MR"

\* re.compile('guest_wireless').search(str(row['tags'])) is not None
IsGuestTagged(tags) == RegexSearch("guest_wireless", PyStr(tags))

\* a variant of OnGuestSubnet that matches the subnet as an address prefix
OnGuestSubnetPrefix(ip) == StartsWith(ip, "10.4.17.")

\* re.compile('10.4.17').search(str(row['ip'])) is not None
OnGuestSubnet(ip) == RegexSearch("10.4.17", ip)

\* the loop of get_ap_list over the rows of the device fetch
RECURSIVE ApLoop(_, _, _, _)
ApLoop(kind, rows, i, serial_list) ==
    IF i > Len(rows) THEN PyList(serial_list)
    ELSE IF kind = "dict"
         THEN IF rows[i] = "errors" THEN PyString("errors") ELSE Raised("TypeError")
         ELSE IF IsAP(rows[i].model)
              THEN ApLoop(kind, rows, i + 1, Append(serial_list, rows[i].serial))
              ELSE ApLoop(kind, rows, i + 1, serial_list)

get_ap_list(result) ==
    IF result.kind = "None" THEN Raised("TypeError")
    ELSE ApLoop(result.kind, Iterated(result), 1, <<>>)

\* the loop of get_guest_ap_list over the rows of the device fetch
RECURSIVE GuestApLoop(_, _, _, _)
GuestApLoop(kind, rows, i, serial_list) ==
    IF i > Len(rows) THEN PyList(serial_list)
    ELSE IF kind = "dict"
         THEN IF rows[i] = "errors" THEN PyString("errors") ELSE Raised("TypeError")
         ELSE IF IsAP(rows[i].model) /\ IsGuestTagged(rows[i].tags)
              THEN GuestApLoop(kind, rows, i + 1, Append(serial_list, rows[i].serial))
              ELSE GuestApLoop(kind, rows, i + 1, serial_list)

get_guest_ap_list(result) ==
    IF result.kind = "None" THEN Raised("TypeError")
    ELSE GuestApLoop(result.kind, Iterated(result), 1, <<>>)

\* [description, ip, mac] of a client row
ClientRow(row) == <<row.description, row.ip, row.mac>>

\* the inner loop of spark_get_guest_clients_cmd: the table rows one fetch adds
RECURSIVE GuestRows(_, _)
GuestRows(rows, i) ==
    IF i > Len(rows) THEN <<>>
    ELSE IF OnGuestSubnet(rows[i].ip)
         THEN <<ClientRow(rows[i])>> \o GuestRows(rows, i + 1)
         ELSE GuestRows(rows, i + 1)

\* row['description'].lower().replace(' ', '_').replace('.', '_')
Normalize(description) == Replace(Replace(Lower(description), " ", "_"), ".", "_")

\* a variant of Accumulate that stores the latest sum instead of adding it
AccumulateLatest(client_traffic, row) ==
    LET traf_sum == row.usage.sent + row.usage.recv
        description == Replace(Replace(Lower(row.description), " ", "_"), ".", "_")
    IN IF description \notin DOMAIN client_traffic
       THEN client_traffic @@ (description :> traf_sum)
       ELSE [client_traffic EXCEPT ![description] = traf_sum]

\* one pass of the body of the inner loop of spark_get_top_talkers_cmd
Accumulate(client_traffic, row) ==
    LET traf_sum == row.usage.sent + row.usage.recv
        description == Normalize(row.description)
    IN IF description \notin DOMAIN client_traffic
       THEN client_traffic @@ (description :> traf_sum)
       ELSE [client_traffic EXCEPT ![description] = client_traffic[description] + traf_sum]

\* the inner loop of spark_get_top_talkers_cmd over one fetch
RECURSIVE AccumulateAll(_, _, _)
AccumulateAll(client_traffic, rows, i) ==
    IF i > Len(rows) THEN client_traffic
    ELSE AccumulateAll(Accumulate(client_traffic, rows[i]), rows, i + 1)

Range(f) == {f[i] : i \in DOMAIN f}

\* a list of str compared as Python compares lists
LexLess(a, b) ==
    \E k \in 1..Min(Len(a), Len(b)) :
        /\ \A j \in 1..(k - 1) : a[j] = b[j]
        /\ StrLess(a[k], b[k])

\* PrettyTable sorts on [row[sortindex]] + row; rows are [id, name, tags]
NetRowLess(a, b) == LexLess(<<a[2]>> \o a, <<b[2]>> \o b)

\* a variant of SortByName that keeps the order the rows were added in
InsertionOrder(rows) == rows

\* table.get_string(sortby="Network Name")
SortByName(rows) ==
    [k \in 1..Len(rows) |->
        CHOOSE r \in Range(rows) :
            /\ Cardinality({i \in 1..Len(rows) : NetRowLess(rows[i], r)}) < k
            /\ k <= Cardinality({i \in 1..Len(rows) : ~NetRowLess(r, rows[i])})]

\* rows are [client, usage]; the sort key is [usage, client, usage]
UsageRowLess(a, b) == a[2] < b[2] \/ (a[2] = b[2] /\ StrLess(a[1], b[1]))

\* table.get_string(sortby="Usage - kbytes past hour") with reversesort set
SortByUsageDesc(rows) ==
    [k \in 1..Cardinality(rows) |->
        CHOOSE r \in rows : Cardinality({q \in rows : UsageRowLess(r, q)}) = k - 1]

----------------------------------------------------------------------------
(* The command dispatch of lambda_handler *)

RickRollPrefix == "Meraki rick roll "

\* a variant of Command that compares without regard to case
CommandAnyCase(text) ==
    LET low == Lower(text)
    IN IF low = "meraki get ?" THEN "help"
       ELSE IF low = "meraki get inventory" THEN "spark_get_inventory_cmd"
       ELSE IF low = "meraki get networks" THEN "spark_get_networks_cmd"
       ELSE IF low = "meraki get ssids" THEN "spark_get_ssids_cmd"
       ELSE IF low = "meraki get mr clients" THEN "spark_get_mr_clients_cmd"
       ELSE IF low = "meraki get guest clients" THEN "spark_get_guest_clients_cmd"
       ELSE IF low = "meraki get top talkers" THEN "spark_get_top_talkers_cmd"
       ELSE IF StartsWith(low, "meraki rick roll ") THEN "rick_roll"
       ELSE "spark_err_msg"

\* the if/elif chain over t['text'], in source order
Command(text) ==
    IF text = "Meraki get ?" THEN "help"
    ELSE IF text = "Meraki get inventory" THEN "spark_get_inventory_cmd"
    ELSE IF text = "Meraki get networks" THEN "spark_get_networks_cmd"
    ELSE IF text = "Meraki get ssids" THEN "spark_get_ssids_cmd"
    ELSE IF text = "Meraki get mr clients" THEN "spark_get_mr_clients_cmd"
    ELSE IF text = "Meraki get guest clients" THEN "spark_get_guest_clients_cmd"
    ELSE IF text = "Meraki get top talkers" THEN "spark_get_top_talkers_cmd"
    ELSE IF StartsWith(text, RickRollPrefix) THEN "rick_roll"
    ELSE "spark_err_msg"

\* cmd_split[1] of the rick roll branch
NumToDial(text) == Split1(text, RickRollPrefix)[2]

\* `x is not None` for the str values the split yields
IsNotNone(x) == x \in STRING

\* a variant of TropoOk that accepts every 2xx status
TropoOkAny2xx(status) == status \div 100 = 2

\* tropo_post.status_code == 200
TropoOk(status) == status = 200

----------------------------------------------------------------------------
(* The state of one invocation *)

VARIABLES
    event,          \* the argument of lambda_handler
    pc,             \* where the invocation is
    exc,            \* the exception that ended it, or "none"
    retval,         \* what lambda_handler returned, or "none"
    calls,          \* every remote call made so far, in order
    invoked,        \* the handlers the dispatch has entered, in order
    msg_id,         \* local msg_id
    room_id,        \* local room_id
    t,              \* local t, the decoded message
    result,         \* the latest merakiapi result (dashboard_response / result)
    sn_list,        \* local sn_list of the three client handlers
    idx,            \* position of `for sn in sn_list`
    client_count,   \* local client_count
    mr_count,       \* local mr_count
    table,          \* rows added to the PrettyTable so far
    client_traffic, \* local client_traffic of spark_get_top_talkers_cmd
    fetched         \* history: every client row the client fetches returned

vars == <<event, pc, exc, retval, calls, invoked, msg_id, room_id, t, result,
          sn_list, idx, client_count, mr_count, table, client_traffic, fetched>>

locals == <<sn_list, idx, client_count, mr_count, table, client_traffic, fetched>>

Init ==
    /\ event \in Events
    /\ pc = "start"
    /\ exc = "none"
    /\ retval = "none"
    /\ calls = <<>>
    /\ invoked = <<>>
    /\ msg_id = ""
    /\ room_id = ""
    /\ t = [message |-> ""]
    /\ result = Unset
    /\ sn_list = PyList(<<>>)
    /\ idx = 1
    /\ client_count = 0
    /\ mr_count = 0
    /\ table = <<>>
    /\ client_traffic = <<>>
    /\ fetched = <<>>

\* an exception leaves lambda_handler: nothing in the source catches it
Raise(e) == pc' = "raised" /\ exc' = e

\* a variant of ExtractIds that reads the room id with a default
ExtractIdsDefaultRoom ==
    /\ pc = "start"
    /\ IF "data" \notin DOMAIN event
       THEN Raise("KeyError") /\ UNCHANGED <<msg_id, room_id>>
       ELSE IF "id" \notin DOMAIN event.data
       THEN Raise("KeyError") /\ UNCHANGED <<msg_id, room_id>>
       ELSE /\ msg_id' = event.data.id
            /\ room_id' = IF "roomId" \in DOMAIN event.data THEN event.data.roomId ELSE ""
            /\ pc' = "get_text"
            /\ UNCHANGED exc
    /\ UNCHANGED <<event, retval, calls, invoked, t, result, locals>>

\* lines 291-294: msg_id = event['data']['id']; room_id = event['data']['roomId']
ExtractIds ==
    /\ pc = "start"
    /\ IF "data" \notin DOMAIN event
       THEN Raise("KeyError") /\ UNCHANGED <<msg_id, room_id>>
       ELSE IF "id" \notin DOMAIN event.data
       THEN Raise("KeyError") /\ UNCHANGED <<msg_id, room_id>>
       ELSE IF "roomId" \notin DOMAIN event.data
       THEN Raise("KeyError") /\ msg_id' = event.data.id /\ UNCHANGED room_id
       ELSE /\ msg_id' = event.data.id
            /\ room_id' = event.data.roomId
            /\ pc' = "get_text"
            /\ UNCHANGED exc
    /\ UNCHANGED <<event, retval, calls, invoked, t, result, locals>>

\* lines 295-296: the message GET and json.loads of its body
GetText ==
    /\ pc = "get_text"
    /\ \E body \in MessageBodies :
        /\ calls' = Append(calls, SparkGet(msg_id))
        /\ t' = body
    /\ pc' = "dispatch"
    /\ UNCHANGED <<event, exc, retval, invoked, msg_id, room_id, result, locals>>

\* line 300: t['text'] of a body that has no 'text'
NoText ==
    /\ pc = "dispatch"
    /\ "text" \notin DOMAIN t
    /\ Raise("KeyError")
    /\ UNCHANGED <<event, retval, calls, invoked, msg_id, room_id, t, result, locals>>

Dispatched(cmd) == pc = "dispatch" /\ "text" \in DOMAIN t /\ Command(t.text) = cmd

HelpText == "get [mr clients|guest clients|top talkers|inventory|networks|ssids]"

\* lines 300-306
Help ==
    /\ Dispatched("help")
    /\ invoked' = Append(invoked, "help")
    /\ calls' = Append(calls, SparkPost(room_id, Text(HelpText)))
    /\ pc' = "return"
    /\ UNCHANGED <<event, exc, retval, msg_id, room_id, t, result, locals>>

\* a handler that fetches once, builds one table and posts it:
\* iterating None, or subscripting the str key of an error dict, raises TypeError
FetchAndPost(name, op, target, res, body) ==
    /\ invoked' = Append(invoked, name)
    /\ result' = res
    /\ IF res.kind = "list"
       THEN /\ calls' = calls \o <<MerakiCall(op, target), SparkPost(room_id, body)>>
            /\ pc' = "return"
            /\ UNCHANGED exc
       ELSE /\ calls' = Append(calls, MerakiCall(op, target))
            /\ Raise("TypeError")
    /\ UNCHANGED <<event, retval, msg_id, room_id, t, locals>>

InventoryRows(rows) == [i \in 1..Len(rows) |-> <<rows[i].model, rows[i].serial, rows[i].mac>>]
NetworkRows(rows) == [i \in 1..Len(rows) |-> <<rows[i].id, rows[i].name, rows[i].tags>>]
SsidRows(rows) == [i \in 1..Len(rows) |-> <<rows[i].number, rows[i].name, rows[i].enabled>>]

\* lines 308-309 and 54-68
spark_get_inventory_cmd ==
    /\ Dispatched("spark_get_inventory_cmd")
    /\ \E res \in DeviceResults :
        FetchAndPost("spark_get_inventory_cmd", "getorginventory", my_org_id, res,
                     Table(<<"Model", "Serial Number", "Mac Address">>,
                           IF res.kind = "list" THEN InventoryRows(res.rows) ELSE <<>>))

\* lines 311-312 and 74-88
spark_get_networks_cmd ==
    /\ Dispatched("spark_get_networks_cmd")
    /\ \E res \in NetworkResults :
        FetchAndPost("spark_get_networks_cmd", "getnetworklist", my_org_id, res,
                     Table(<<"Network ID", "Network Name", "Tags">>,
                           IF res.kind = "list" THEN SortByName(NetworkRows(res.rows))
                           ELSE <<>>))

\* lines 314-315 and 94-108
spark_get_ssids_cmd ==
    /\ Dispatched("spark_get_ssids_cmd")
    /\ \E res \in SsidResults :
        FetchAndPost("spark_get_ssids_cmd", "getssids", my_net_id, res,
                     Table(<<"SSID #", "SSID Name", "Enabled?">>,
                           IF res.kind = "list" THEN SsidRows(res.rows) ELSE <<>>))

\* spark_err_msg, lines 250-255
spark_err_msg ==
    /\ invoked' = Append(invoked, "spark_err_msg")
    /\ calls' = Append(calls, SparkPost(room_id, Text("Please enter a valid command")))
    /\ pc' = "return"
    /\ UNCHANGED exc

\* meraki_rick_roll, lines 258-279
meraki_rick_roll(number) ==
    /\ invoked' = Append(invoked, "meraki_rick_roll")
    /\ \E status \in TropoStatuses :
        calls' = calls \o
            <<TropoPost(number, status),
              SparkPost(room_id, Text(IF TropoOk(status) THEN "Success"
                                      ELSE "Something went wrong"))>>
    /\ pc' = "return"
    /\ UNCHANGED exc

\* lines 327-333
RickRoll ==
    /\ Dispatched("rick_roll")
    /\ LET num_to_dial == NumToDial(t.text)
       IN IF IsNotNone(num_to_dial) THEN meraki_rick_roll(num_to_dial) ELSE spark_err_msg
    /\ UNCHANGED <<event, retval, msg_id, room_id, t, result, locals>>

\* lines 343-344
NoCommand ==
    /\ Dispatched("spark_err_msg")
    /\ spark_err_msg
    /\ UNCHANGED <<event, retval, msg_id, room_id, t, result, locals>>

\* line 346
Return ==
    /\ pc = "return"
    /\ retval' = "Finished"
    /\ pc' = "done"
    /\ UNCHANGED <<event, exc, calls, invoked, msg_id, room_id, t, result, locals>>

----------------------------------------------------------------------------
(* The three handlers that fetch the clients of every access point *)

\* the filter each client handler calls for its device list (lines 161, 194, 223)
DeviceFilter(name, res) ==
    IF name = "spark_get_guest_clients_cmd" THEN get_guest_ap_list(res)
    ELSE get_ap_list(res)

\* the device fetch and filter that open a client handler
\* (lines 161-163, 194-197, 222-224); the handler's locals are set before the loop
ClientsStart(name, loop, Results) ==
    /\ Dispatched(name)
    /\ invoked' = Append(invoked, name)
    /\ \E res \in Results :
        /\ result' = res
        /\ calls' = Append(calls, MerakiCall("getnetworkdevices", my_net_id))
        /\ LET v == DeviceFilter(name, res)
           IN IF v.kind = "raise"
              THEN Raise(v.s) /\ UNCHANGED sn_list
              ELSE sn_list' = v /\ pc' = loop /\ UNCHANGED exc
    /\ idx' = 1
    /\ client_count' = 0
    /\ mr_count' = 0
    /\ table' = <<>>
    /\ client_traffic' = <<>>
    /\ UNCHANGED <<event, retval, msg_id, room_id, t, fetched>>

ClientRows(rows) == [i \in 1..Len(rows) |-> ClientRow(rows[i])]

\* what one pass of `for sn in sn_list` has in common: the client fetch for sn.
\* sn_list is iterated whatever it is: a str yields its characters.
ClientFetch(loop, res) ==
    /\ pc = loop
    /\ idx <= Len(sn_list.items)
    /\ result' = res
    /\ calls' = Append(calls, MerakiCall("getclients", sn_list.items[idx]))
    /\ IF res.kind = "list"
       THEN idx' = idx + 1 /\ fetched' = fetched \o res.rows /\ UNCHANGED <<pc, exc>>
       ELSE Raise("TypeError") /\ UNCHANGED <<idx, fetched>>
    /\ UNCHANGED <<event, retval, invoked, msg_id, room_id, t, sn_list>>

\* lines 198-207
MrClientsFetch(Results) ==
    \E res \in Results :
        /\ ClientFetch("mr_loop", res)
        /\ mr_count' = mr_count + 1
        /\ client_count' = IF res.kind = "list" THEN client_count + Len(res.rows)
                           ELSE IF res.kind = "dict" THEN client_count + 1
                           ELSE client_count
        /\ table' = IF res.kind = "list" THEN table \o ClientRows(res.rows) ELSE table
        /\ UNCHANGED client_traffic

\* lines 164-177
GuestClientsFetch(Results) ==
    \E res \in Results :
        /\ ClientFetch("guest_loop", res)
        /\ LET added == IF res.kind = "list" THEN GuestRows(res.rows, 1) ELSE <<>>
           IN /\ client_count' = client_count + Len(added)
              /\ table' = table \o added
        /\ UNCHANGED <<mr_count, client_traffic>>

\* lines 225-235
TopTalkersFetch(Results) ==
    \E res \in Results :
        /\ ClientFetch("talkers_loop", res)
        /\ client_traffic' = IF res.kind = "list"
                             THEN AccumulateAll(client_traffic, res.rows, 1)
                             ELSE client_traffic
        /\ UNCHANGED <<client_count, mr_count, table>>

ClientHeader == <<"Description", "IP", "MAC">>

LoopDone(loop) == pc = loop /\ idx > Len(sn_list.items)

PostAll(posts) ==
    /\ calls' = calls \o posts
    /\ pc' = "return"
    /\ UNCHANGED <<event, exc, retval, invoked, msg_id, room_id, t, result, locals>>

\* lines 208-217
MrClientsPost ==
    /\ LoopDone("mr_loop")
    /\ PostAll(<<SparkPost(room_id,
                   Text("There are " \o ToString(client_count)
                        \o " users on the wireless network across "
                        \o ToString(mr_count) \o " MR devices")),
                 SparkPost(room_id, Table(ClientHeader, table))>>)

\* lines 178-186
GuestClientsPost ==
    /\ LoopDone("guest_loop")
    /\ PostAll(<<SparkPost(room_id,
                   Text("There are " \o ToString(client_count)
                        \o " users on the guest wireless network")),
                 SparkPost(room_id, Table(ClientHeader, table))>>)

\* lines 236-246
TopTalkersPost ==
    /\ LoopDone("talkers_loop")
    /\ PostAll(<<SparkPost(room_id,
                   Table(<<"Client", "Usage - kbytes past hour">>,
                         SortByUsageDesc({<<k, client_traffic[k]>> :
                                            k \in DOMAIN client_traffic})))>>)

spark_get_mr_clients_cmd(Devs) ==
    ClientsStart("spark_get_mr_clients_cmd", "mr_loop", Devs)

spark_get_guest_clients_cmd(Devs) ==
    ClientsStart("spark_get_guest_clients_cmd", "guest_loop", Devs)

spark_get_top_talkers_cmd(Devs) ==
    ClientsStart("spark_get_top_talkers_cmd", "talkers_loop", Devs)

----------------------------------------------------------------------------
(* lambda_handler, one invocation *)

Next ==
    \/ ExtractIds
    \/ GetText
    \/ NoText
    \/ Help
    \/ spark_get_inventory_cmd
    \/ spark_get_networks_cmd
    \/ spark_get_ssids_cmd
    \/ spark_get_mr_clients_cmd(DeviceResults)
    \/ MrClientsFetch(ClientResults)
    \/ MrClientsPost
    \/ spark_get_guest_clients_cmd(DeviceResults)
    \/ GuestClientsFetch(ClientResults)
    \/ GuestClientsPost
    \/ spark_get_top_talkers_cmd(DeviceResults)
    \/ TopTalkersFetch(ClientResults)
    \/ TopTalkersPost
    \/ RickRoll
    \/ NoCommand
    \/ Return

Spec == Init /\ [][Next]_vars

----------------------------------------------------------------------------
(* Handler studies: one handler of lambda_handler, entered as the dispatch  *)
(* enters it, over richer answers of the dashboard                          *)

FullEvents == {e \in Events : "data" \in DOMAIN e /\ DOMAIN e.data = {"id", "roomId"}}

\* the state lambda_handler is in at line 300 when the message reads `text`
InitAt(text) ==
    /\ event \in FullEvents
    /\ pc = "dispatch"
    /\ exc = "none"
    /\ retval = "none"
    /\ msg_id = event.data.id
    /\ room_id = event.data.roomId
    /\ calls = <<SparkGet(msg_id)>>
    /\ invoked = <<>>
    /\ t = [text |-> text]
    /\ result = Unset
    /\ sn_list = PyList(<<>>)
    /\ idx = 1
    /\ client_count = 0
    /\ mr_count = 0
    /\ table = <<>>
    /\ client_traffic = <<>>
    /\ fetched = <<>>

\* devices of every kind the two filters tell apart
StudyDevices ==
    {Device("MR33", "Q2-AP1", "00:18:0a:00:00:01", <<"guest_wireless">>),
     Device("MR42", "Q2-AP2", "00:18:0a:00:00:02", <<>>),
     Device("MX64", "Q2-MX1", "00:18:0a:00:00:03", <<"guest_wireless">>),
     Device("MR18", "Q2-AP4", "00:18:0a:00:00:04", <<"guest_wireless_lab">>),
     Device("MR52", "Q2-AP5", "00:18:0a:00:00:05", <<"lobby", "guest_wireless">>),
     Device("MS220", "Q2-SW1", "00:18:0a:00:00:06", <<"lobby">>)}

StudyDeviceResults ==
    {ListResult(l) : l \in SeqsUpTo(StudyDevices, MaxDevices)} \cup FailedResults

NoClients == {ListResult(<<>>)}

InitDevices ==
    \E text \in {"Meraki get mr clients", "Meraki get guest clients"} : InitAt(text)

NextDevices ==
    \/ spark_get_mr_clients_cmd(StudyDeviceResults)
    \/ MrClientsFetch(NoClients)
    \/ MrClientsPost
    \/ spark_get_guest_clients_cmd(StudyDeviceResults)
    \/ GuestClientsFetch(NoClients)
    \/ GuestClientsPost
    \/ Return

SpecDevices == InitDevices /\ [][NextDevices]_vars

\* access points carrying the guest tag, as the dashboard lists them
StudyAPList ==
    <<Device("MR33", "Q2-AP1", "00:18:0a:00:00:01", <<"guest_wireless">>),
      Device("MR52", "Q2-AP5", "00:18:0a:00:00:05", <<"lobby", "guest_wireless">>),
      Device("MR42", "Q2-AP7", "00:18:0a:00:00:07", <<"guest_wireless">>),
      Device("MR33", "Q2-AP8", "00:18:0a:00:00:08", <<"guest_wireless">>)>>

StudyAPResults ==
    {ListResult(SubSeq(StudyAPList, 1, k)) : k \in 0..Min(MaxAPs, Len(StudyAPList))}

\* clients inside the guest subnet, outside it, and outside it with the same digits
StudyGuestClients ==
    {Client("Bob PC", "10.4.17.5", "aa:00:00:00:00:01", 3, 4),
     Client("kiosk", "110.4.17.9", "aa:00:00:00:00:03", 2, 2),
     Client("printer.lan", "192.168.1.10", "aa:00:00:00:00:02", 1, 0),
     Client("cam", "10.4.1.7", "aa:00:00:00:00:04", 0, 5)}

StudyGuestResults ==
    {ListResult(l) : l \in SeqsUpTo(StudyGuestClients, MaxClients)} \cup FailedResults

InitGuest == InitAt("Meraki get guest clients")

NextGuest ==
    \/ spark_get_guest_clients_cmd(StudyAPResults)
    \/ GuestClientsFetch(StudyGuestResults)
    \/ GuestClientsPost
    \/ Return

SpecGuest == InitGuest /\ [][NextGuest]_vars

\* clients whose descriptions normalize to the same name, and one that does not
StudyTalkers ==
    {Client("Bob PC", "10.4.17.5", "aa:00:00:00:00:01", 3, 4),
     Client("bob.pc", "10.4.17.6", "aa:00:00:00:00:05", 10, 0),
     Client("Printer", "192.168.1.10", "aa:00:00:00:00:02", 1, 1)}

StudyTalkerResults ==
    {ListResult(l) : l \in SeqsUpTo(StudyTalkers, MaxClients)} \cup FailedResults

InitTalkers == InitAt("Meraki get top talkers")

NextTalkers ==
    \/ spark_get_top_talkers_cmd(StudyAPResults)
    \/ TopTalkersFetch(StudyTalkerResults)
    \/ TopTalkersPost
    \/ Return

SpecTalkers == InitTalkers /\ [][NextTalkers]_vars

----------------------------------------------------------------------------
(* Properties *)

\* the dispatch has read the message text and entered a branch
Dispatching == "text" \in DOMAIN t /\ pc \notin {"start", "get_text", "dispatch"}

Finished == pc \in {"done", "raised"}

CallsWith(api, method) ==
    {i \in DOMAIN calls : calls[i].api = api /\ calls[i].method = method}

RoomPosts == CallsWith("spark", "POST")

\* the handler each exact command names
ExactCommands ==
    ("Meraki get ?" :> "help")
        @@ ("Meraki get inventory" :> "spark_get_inventory_cmd")
        @@ ("Meraki get networks" :> "spark_get_networks_cmd")
        @@ ("Meraki get ssids" :> "spark_get_ssids_cmd")
        @@ ("Meraki get mr clients" :> "spark_get_mr_clients_cmd")
        @@ ("Meraki get guest clients" :> "spark_get_guest_clients_cmd")
        @@ ("Meraki get top talkers" :> "spark_get_top_talkers_cmd")

HasRickRollPrefix(text) == Len(text) >= 17 /\ SubSeq(text, 1, 17) = "Meraki rick roll "

ExpectedHandler(text) ==
    IF text \in DOMAIN ExactCommands THEN ExactCommands[text]
    ELSE IF HasRickRollPrefix(text) THEN "meraki_rick_roll"
    ELSE "spark_err_msg"

\* C1: for every message text the GET returns, the dispatch enters exactly one
\* handler: the help reply for exactly 'Meraki get ?' (with no dashboard and no
\* Tropo call), the handler of each of the six exact commands, meraki_rick_roll
\* for the 'Meraki rick roll ' prefix, and spark_err_msg, posting 'Please enter
\* a valid command' to the event's room, for every other text; a text differing
\* in case or whitespace matches nothing.
C1_ExactlyOneHandler ==
    /\ Len(invoked) <= 1
    /\ Dispatching =>
        /\ invoked = <<ExpectedHandler(t.text)>>
        /\ t.text = "Meraki get ?" =>
            calls = <<SparkGet(event.data.id),
                      SparkPost(event.data.roomId, Text(HelpText))>>
        /\ ExpectedHandler(t.text) = "spark_err_msg" =>
            calls = <<SparkGet(event.data.id),
                      SparkPost(event.data.roomId, Text("Please enter a valid command"))>>

\* a command typed in lower case ended in spark_err_msg
C1_Witness ==
    /\ pc = "done"
    /\ "text" \in DOMAIN t
    /\ t.text = "meraki get ?"
    /\ invoked = <<"spark_err_msg">>

\* C2: a text with the prefix 'Meraki rick roll ' and a non-empty remainder
\* enters meraki_rick_roll with that remainder as the number; with an empty
\* remainder it enters spark_err_msg, makes no Tropo call and raises nothing.
C2_EmptyNumberIsAnError ==
    (Dispatching /\ HasRickRollPrefix(t.text)) =>
        LET remainder == SubSeq(t.text, 18, Len(t.text))
        IN IF remainder # ""
           THEN /\ invoked = <<"meraki_rick_roll">>
                /\ \A i \in CallsWith("tropo", "POST") : calls[i].target = remainder
           ELSE /\ invoked = <<"spark_err_msg">>
                /\ CallsWith("tropo", "POST") = {}
                /\ pc # "raised"

EventLacksIds ==
    \/ "data" \notin DOMAIN event
    \/ "id" \notin DOMAIN event.data
    \/ "roomId" \notin DOMAIN event.data

\* C3: when the event lacks data.id or data.roomId the invocation fails at the
\* extraction of the ids (KeyError) and makes no remote call at all: no message
\* GET, no dashboard call, no Tropo call, no room POST.
C3_MalformedEventNoCalls ==
    EventLacksIds =>
        /\ pc \in {"start", "raised"}
        /\ calls = <<>>
        /\ retval = "none"
        /\ pc = "raised" => exc = "KeyError"

\* an event with data.id and no data.roomId has failed
C3_Witness ==
    /\ "data" \in DOMAIN event
    /\ DOMAIN event.data = {"id"}
    /\ pc = "raised"
    /\ exc = "KeyError"
    /\ calls = <<>>

\* C4: once the room id is extracted, a failure inside a command handler never
\* leaves lambda_handler: the invocation does not end in an exception, and when
\* it has ended it has returned 'Finished'.
C4_HandlerFailureIsCaught ==
    invoked # <<>> =>
        /\ pc # "raised"
        /\ exc = "none"
        /\ Finished => retval = "Finished"

\* the state right after the device fetch of a client handler
AfterDeviceFetch ==
    /\ pc \in {"mr_loop", "guest_loop", "talkers_loop"}
    /\ idx = 1
    /\ calls[Len(calls)].method = "getnetworkdevices"

Serials(devs) == [i \in 1..Len(devs) |-> devs[i].serial]

ModelIsMR(d) == Len(d.model) >= 2 /\ SubSeq(d.model, 1, 2) = "MR"

HasGuestTag(d) == \E i \in DOMAIN d.tags : d.tags[i] = "guest_wireless"

ModelIsMRWithGuestTag(d) == ModelIsMR(d) /\ HasGuestTag(d)

\* C5: for every device list, get_ap_list returns the serials, in server order,
\* of the devices whose model starts with 'MR', and get_guest_ap_list those of
\* the devices whose model starts with 'MR' and whose tags include the tag
\* 'guest_wireless' itself; a longer tag that contains it does not count.
C5_FiltersAreExact ==
    (AfterDeviceFetch /\ result.kind = "list") =>
        /\ pc = "mr_loop" =>
            sn_list = PyList(Serials(SelectSeq(result.rows, ModelIsMR)))
        /\ pc = "guest_loop" =>
            sn_list = PyList(Serials(SelectSeq(result.rows, ModelIsMRWithGuestTag)))

\* the part of C5 the source keeps: get_ap_list is exact, and get_guest_ap_list
\* returns no device that is not an MR and every MR that has the tag
C5_FiltersWithinBounds ==
    (AfterDeviceFetch /\ result.kind = "list") =>
        /\ pc = "mr_loop" =>
            sn_list = PyList(Serials(SelectSeq(result.rows, ModelIsMR)))
        /\ pc = "guest_loop" =>
            /\ sn_list.kind = "list"
            /\ \A d \in Range(result.rows) :
                /\ ModelIsMRWithGuestTag(d) => d.serial \in Range(sn_list.items)
                /\ ~ModelIsMR(d) => d.serial \notin Range(sn_list.items)

\* the rows of the clients whose IP contains the text '10.4.17'
HasSubnetText(c) ==
    \E i \in 1..(Len(c.ip) - 6) : SubSeq(c.ip, i, i + 6) = "10.4.17"

SubnetRows(clients) ==
    LET kept == SelectSeq(clients, HasSubnetText)
    IN [i \in 1..Len(kept) |-> <<kept[i].description, kept[i].ip, kept[i].mac>>]

\* C6: in spark_get_guest_clients_cmd the clients counted and added to the
\* detail table are exactly those whose IP contains the text '10.4.17'
\* ('110.4.17.9' included), in the order fetched; the count posted is the
\* number of rows of the table posted.
C6_SubnetFilterIsTextual ==
    pc \in {"guest_loop", "return", "done"} =>
        /\ table = SubnetRows(fetched)
        /\ client_count = Len(table)
        /\ pc \in {"return", "done"} =>
            /\ Len(calls) >= 2
            /\ calls[Len(calls)] = SparkPost(event.data.roomId, Table(ClientHeader, table))
            /\ calls[Len(calls) - 1] =
                SparkPost(event.data.roomId,
                          Text("There are " \o ToString(Len(calls[Len(calls)].body.rows))
                               \o " users on the guest wireless network"))

\* a run that kept 110.4.17.9 and dropped a client outside the subnet text
C6_Witness ==
    /\ pc = "done"
    /\ invoked = <<"spark_get_guest_clients_cmd">>
    /\ \E i \in DOMAIN fetched : fetched[i].ip = "110.4.17.9"
    /\ \E i \in DOMAIN fetched : fetched[i].ip = "10.4.1.7"
    /\ \E i \in DOMAIN table : table[i][2] = "110.4.17.9"
    /\ Len(table) < Len(fetched)

\* the normalized name of each description the study uses
NormalizedName ==
    ("Bob PC" :> "bob_pc") @@ ("bob.pc" :> "bob_pc") @@ ("Printer" :> "printer")

RECURSIVE TotalFor(_, _, _)
TotalFor(name, clients, i) ==
    IF i > Len(clients) THEN 0
    ELSE (IF NormalizedName[clients[i].description] = name
          THEN clients[i].usage.sent + clients[i].usage.recv
          ELSE 0) + TotalFor(name, clients, i + 1)

\* clients with the records at i and i + 1 exchanged
Swapped(clients, i) ==
    [j \in 1..Len(clients) |->
        IF j = i THEN clients[i + 1] ELSE IF j = i + 1 THEN clients[i] ELSE clients[j]]

\* C7: the usage map of spark_get_top_talkers_cmd does not depend on the order
\* of the client records: its keys are the normalized names, each total is the
\* sum of sent + recv over the records of that name, exchanging any two
\* neighbouring records gives the same map, and the records taken twice give
\* the doubled totals.
C7_AggregationIsOrderFree ==
    pc \in {"talkers_loop", "return", "done"} =>
        /\ DOMAIN client_traffic = {NormalizedName[fetched[i].description] : i \in DOMAIN fetched}
        /\ \A k \in DOMAIN client_traffic : client_traffic[k] = TotalFor(k, fetched, 1)
        /\ \A i \in 1..(Len(fetched) - 1) :
            AccumulateAll(<<>>, Swapped(fetched, i), 1) = client_traffic
        /\ AccumulateAll(<<>>, fetched \o fetched, 1) =
            [k \in DOMAIN client_traffic |-> 2 * client_traffic[k]]

\* two records of different descriptions and the same normalized name merged
C7_Witness ==
    /\ pc = "done"
    /\ \E i, j \in DOMAIN fetched :
        /\ fetched[i].description = "Bob PC"
        /\ fetched[j].description = "bob.pc"
        /\ i < j
    /\ DOMAIN client_traffic = {"bob_pc"}
    /\ client_traffic["bob_pc"] = 17

Count(x, seq) == Cardinality({i \in DOMAIN seq : seq[i] = x})

SameRows(a, b) ==
    /\ Len(a) = Len(b)
    /\ \A x \in Range(a) \cup Range(b) : Count(x, a) = Count(x, b)

\* C8: an invocation whose text is 'Meraki get networks', and whose network
\* fetch returned a list, makes exactly one network-list fetch and exactly one
\* POST, to the event's room, of the table of all fetched networks (columns
\* Network ID / Network Name / Tags), rows in ascending order of network name.
C8_NetworksSortedOnePost ==
    (pc = "done" /\ "text" \in DOMAIN t /\ t.text = "Meraki get networks") =>
        /\ result.kind = "list"
        /\ Cardinality(CallsWith("meraki", "getnetworklist")) = 1
        /\ Cardinality({i \in DOMAIN calls : calls[i].api = "meraki"}) = 1
        /\ Cardinality(RoomPosts) = 1
        /\ LET post == calls[CHOOSE i \in RoomPosts : TRUE]
           IN /\ post.target = event.data.roomId
              /\ post.body.kind = "table"
              /\ post.body.header = <<"Network ID", "Network Name", "Tags">>
              /\ SameRows(post.body.rows,
                          [i \in 1..Len(result.rows) |->
                              <<result.rows[i].id, result.rows[i].name, result.rows[i].tags>>])
              /\ \A i, j \in DOMAIN post.body.rows :
                    i < j => ~StrLess(post.body.rows[j][2], post.body.rows[i][2])

\* three networks fetched out of name order were posted in name order
C8_Witness ==
    /\ pc = "done"
    /\ invoked = <<"spark_get_networks_cmd">>
    /\ result.kind = "list"
    /\ Len(result.rows) = 3
    /\ result.rows[1].name = "branch"
    /\ result.rows[2].name = "alpha"
    /\ result.rows[3].name = "Zurich"
    /\ calls[Len(calls)].body.rows[1][2] = "Zurich"
    /\ calls[Len(calls)].body.rows[3][2] = "branch"

RickRollCalls(ok(_)) ==
    /\ Len(calls) = 3
    /\ CallsWith("tropo", "POST") = {2}
    /\ calls[2].target = SubSeq(t.text, 18, Len(t.text))
    /\ calls[3] = SparkPost(event.data.roomId,
                            Text(IF ok(calls[2].status) THEN "Success"
                                 ELSE "Something went wrong"))

Is2xx(status) == status >= 200 /\ status <= 299

Is200(status) == status = 200

C10_FailedDeviceFetchAborts ==
    (invoked # <<>> /\ sn_list.kind = "str") =>
        /\ CallsWith("meraki", "getclients") = {}
        /\ Cardinality(CallsWith("meraki", "getnetworkdevices")) = 1
        /\ \A i \in RoomPosts : calls[i].body.kind = "text"
        /\ pc = "done" => RoomPosts # {}

====
